---- MODULE Spec2Model ----
(***************************************************************************)
(* Model of the drone patrol planner of drone-patrol-service:             *)
(* handler.Server.CalculateDroneDistance, stepped one grid cell at a time. *)
(***************************************************************************)
EXTENDS Integers, Sequences, FiniteSets, TLC

(* ---------------------------------------------------------------------- *)
(* Bounds of the enumerated inputs                                        *)
(* ---------------------------------------------------------------------- *)
MaxWidth == 3
MaxLength == 2
MaxTrees == 1
MaxHeight == 2
MaxScale == 2
MaxBudget == 9

VARIABLES
    input,                         \* <<>> (nil) or <<CalculateDroneDistanceInput>>
    maxDistance,                   \* <<>> (nil) or <<budget>>
    ScaleFactor,                   \* s.Config.ScaleFactor
    plantationGridArray,           \* [row -> [column -> height]]
    totalHorizontalDistance,
    totalVerticalDistance,
    currentHeight,
    previousHeight,
    increment,
    i,
    j,
    calculateDroneDistanceOutput,  \* the struct allocated by the call
    returned,                      \* "none" | "nil" | "output"
    err,
    pc,                            \* "call" | "scan" | "finish" | "done"
    visited,                       \* cells whose loop body has run, in order
    landings,                      \* cells at which the landing branch ran
    outcome,                       \* "Scanning" | "InvalidInput" | "BudgetExceeded" | "Completed"
    previous,                      \* <<>> or <<budget and result of the call before this one>>
    parked,                        \* <<>> or <<locals of a concurrent call that is not running now>>
    caller,                        \* who runs the planner: "test", "none" or a request slot
    mocked,                        \* Server.Repository is the tests' mock, not the database
    estatesTable,                  \* table estates: set of rows
    treesTable,                    \* table trees: rows in insertion order
    nextId,                        \* the next value of uuid.New()
    now,                           \* the database clock, now()
    requests,                      \* [slot -> the request served there and its locals]
    calls                          \* [slot -> the repository and planner calls made, with results]

vars == <<input, maxDistance, ScaleFactor, plantationGridArray,
          totalHorizontalDistance, totalVerticalDistance, currentHeight,
          previousHeight, increment, i, j, calculateDroneDistanceOutput,
          returned, err, pc, visited, landings, outcome,
          previous, parked, caller, mocked, estatesTable, treesTable, nextId, now,
          requests, calls>>

\* the state outside the planner call
serverVars ==
    <<caller, mocked, estatesTable, treesTable, nextId, now, requests, calls>>

(* ---------------------------------------------------------------------- *)
(* Types of the repository package                                        *)
(* ---------------------------------------------------------------------- *)
Tree(x, y, h) == [X |-> x, Y |-> y, Height |-> h]

Estate(length, width) == [Length |-> length, Width |-> width]

CalculateDroneDistanceInput(estate, trees) == [Estate |-> estate, Trees |-> trees]

ZeroOutput ==
    [TotalDistance |-> 0, TotalVerticalDistance |-> 0,
     TotalHorizontalDistance |-> 0,
     LastAchievableXCoordinate |-> 0, LastAchievableYCoordinate |-> 0]

InvalidInputError ==
    "err CalculateDroneDistance: invalid input -- nothing to calculate drone distance"

(* ---------------------------------------------------------------------- *)
(* Helpers of the planner                                                 *)
(* ---------------------------------------------------------------------- *)
Abs(n) == IF n < 0 THEN -n ELSE n

\* SeqsUpTo(S, n): the sequences over S of length at most n
SeqsUpTo(S, n) == UNION {[1..k -> S] : k \in 0..n}

\* grid of ones, Width rows of Length cells (rows and columns 0-based)
OnesGrid(estate) ==
    [r \in 0..(estate.Width - 1) |-> [c \in 0..(estate.Length - 1) |-> 1]]

RECURSIVE PlaceTrees(_, _, _)
\* writes trees[k..] into the grid in list order: a later tree overwrites
PlaceTrees(grid, trees, k) ==
    IF k > Len(trees) THEN grid
    ELSE LET t == trees[k]
         IN PlaceTrees([grid EXCEPT ![t.Y - 1][t.X - 1] = t.Height + 1], trees, k + 1)

\* slip: the trees written in reverse list order, so that the first one stays
BuildGridReversedList(in) ==
    PlaceTrees(OnesGrid(in.Estate),
               [k \in 1..Len(in.Trees) |-> in.Trees[Len(in.Trees) + 1 - k]], 1)

BuildGrid(in) == PlaceTrees(OnesGrid(in.Estate), in.Trees, 1)

\* slip: the signed difference instead of its absolute value
IncrementSigned(cur, prev) == cur - prev

\* the vertical move into a cell
Increment(cur, prev) == Abs(cur - prev)

\* the horizontal move into cell (r, c) of an even row
HorizontalStepEven(r, c) == IF ~(r = 0 /\ c = 0) THEN ScaleFactor ELSE 0

\* slip: the turn into an odd row costs nothing
HorizontalStepOddFreeTurn(r, c) ==
    IF c = input[1].Estate.Length - 1 THEN 0 ELSE ScaleFactor

\* the horizontal move into a cell of an odd row
HorizontalStepOdd(r, c) == ScaleFactor

\* slip: the very first cell is compared with itself
PreviousHeightEvenFirstIsCurrent(grid, r, c, prev) ==
    IF c = 0
    THEN IF r = 0 THEN grid[r][c] ELSE grid[r - 1][c]
    ELSE grid[r][c - 1]

\* previousHeight after the assignments at the top of the even-row body
PreviousHeightEven(grid, r, c, prev) ==
    IF c = 0
    THEN IF r = 0 THEN prev ELSE grid[r - 1][c]
    ELSE grid[r][c - 1]

\* previousHeight after the assignments at the top of the odd-row body
PreviousHeightOdd(grid, r, c, length) ==
    IF c = length - 1 THEN grid[r - 1][c] ELSE grid[r][c + 1]

\* slip: the comparison of the check turned around
BudgetExceededReversed(max, horizontal, vertical, cur) ==
    max # <<>> /\ max[1] > horizontal + vertical + cur

\* slip: the check trips already when the budget is exactly met
BudgetExceededAtEqual(max, horizontal, vertical, cur) ==
    max # <<>> /\ max[1] <= horizontal + vertical + cur

\* slip: the horizontal travel left out of the check
BudgetExceededIgnoresHorizontal(max, horizontal, vertical, cur) ==
    max # <<>> /\ max[1] < vertical + cur

\* slip: the hover height of the current cell left out of the check
BudgetExceededWithoutHover(max, horizontal, vertical, cur) ==
    max # <<>> /\ max[1] < horizontal + vertical

\* the budget check of both row loops
BudgetExceeded(max, horizontal, vertical, cur) ==
    max # <<>> /\ max[1] < horizontal + vertical + cur

\* slip: the landing branch taken at the end of every even row
IsLastCellEvenEveryRow(r, c, estate) == c = estate.Length - 1

\* slip: the landing branch of the odd rows never taken
IsLastCellOddNever(r, c, estate) == FALSE

\* the landing conditions
IsLastCellEven(r, c, estate) == r = estate.Width - 1 /\ c = estate.Length - 1

IsLastCellOdd(r, c, estate) == r = estate.Width - 1 /\ c = 0

\* slip: the next row entered at column 0 instead of the column just left
NextCellEvenRestart(r, c, estate) ==
    IF c + 1 < estate.Length THEN <<r, c + 1>> ELSE <<r + 1, 0>>

\* the loop control after cell (r, c) of an even row: <<next i, next j>>
NextCellEven(r, c, estate) ==
    IF c + 1 < estate.Length THEN <<r, c + 1>>
    ELSE IF r + 1 < estate.Width THEN <<r + 1, estate.Length - 1>>
    ELSE <<r + 1, c + 1>>

\* slip: the odd-row loop stops before column 0
NextCellOddStopsEarly(r, c, estate) ==
    IF c - 1 > 0 THEN <<r, c - 1>>
    ELSE IF r + 1 < estate.Width THEN <<r + 1, 0>>
    ELSE <<r + 1, c - 1>>

\* the loop control after cell (r, c) of an odd row: <<next i, next j>>
NextCellOdd(r, c, estate) ==
    IF c - 1 >= 0 THEN <<r, c - 1>>
    ELSE IF r + 1 < estate.Width THEN <<r + 1, 0>>
    ELSE <<r + 1, c - 1>>

\* slip: the total stored without the horizontal component
StoreTotalsVerticalOnly(out, horizontal, vertical) ==
    [out EXCEPT !.TotalDistance = vertical,
                !.TotalHorizontalDistance = horizontal,
                !.TotalVerticalDistance = vertical]

\* the three assignments before the final return
StoreTotals(out, horizontal, vertical) ==
    [out EXCEPT !.TotalDistance = vertical + horizontal,
                !.TotalHorizontalDistance = horizontal,
                !.TotalVerticalDistance = vertical]

(* ---------------------------------------------------------------------- *)
(* The HTTP server: requests, responses and the repository                *)
(* ---------------------------------------------------------------------- *)
\* the requests served concurrently
Slots == {"r1", "r2"}

IdleRequest ==
    [handler |-> "none", estateId |-> 0, body |-> <<>>, max |-> <<>>,
     at |-> "idle", estate |-> <<>>, planned |-> <<>>, status |-> 0,
     resp |-> <<>>]

\* what a repository method returns: (output or nil, error or nil)
Result(out, failed) == [out |-> out, err |-> failed]

\* the query or the transaction failed
DbError == Result(<<>>, TRUE)

\* a repository call as logged: method, arguments and what it returned
CallOf(method, args, res) == [method |-> method, args |-> args, res |-> res]

\* the JSON error bodies and the statuses of net/http
ErrorBody(message) == [error |-> message]

StatusOK == 200

StatusBadRequest == 400

StatusNotFound == 404

StatusInternalServerError == 500

Response(status, body) == [status |-> status, body |-> body]

InvalidRequest == Response(StatusBadRequest, ErrorBody("Invalid request"))

EstateNotFound == Response(StatusNotFound, ErrorBody("Estate not found"))

SomethingHappens ==
    Response(StatusInternalServerError,
             ErrorBody("Something happens in our end. Let us check."))

\* the validate tags of TreeRequest: required, min=1, max=50000 / max=30
ValidTreeRequest(req) ==
    /\ req.X >= 1 /\ req.X <= 50000
    /\ req.Y >= 1 /\ req.Y <= 50000
    /\ req.Height >= 1 /\ req.Height <= 30

\* the validate tags of EstateRequest: required, min=1, max=50000
ValidEstateRequest(req) ==
    /\ req.Length >= 1 /\ req.Length <= 50000
    /\ req.Width >= 1 /\ req.Width <= 50000

(* ---- repository.Repository on the two tables ---- *)
\* the row that holds these dimensions already, if there is one
EstateRowsOfSize(length, width) ==
    {e \in estatesTable : e.length = length /\ e.width = width}

\* the constraints of table estates that ON CONFLICT does not absorb
EstateRowAccepted(row) ==
    /\ \A e \in estatesTable : e.id # row.id
    /\ row.length >= 1 /\ row.length <= 50000
    /\ row.width >= 1 /\ row.width <= 50000

\* slip: a plain INSERT, without the ON CONFLICT clause and the unique key
CreateEstateInsertsAgain(in) ==
    LET row == [id |-> in.Id, length |-> in.Length, width |-> in.Width,
                created_at |-> now]
    IN IF \A e \in estatesTable : e.id # row.id
       THEN [res |-> Result(<<[Id |-> in.Id]>>, FALSE),
             table |-> estatesTable \cup {row}]
       ELSE [res |-> DbError, table |-> estatesTable]

\* INSERT ... ON CONFLICT (length, width) DO UPDATE SET created_at = now()
\* RETURNING id, inside one transaction: an existing row with the dimensions
\* is kept and its created_at refreshed, whichever id the call carries
CreateEstate(in) ==
    LET row == [id |-> in.Id, length |-> in.Length, width |-> in.Width,
                created_at |-> now]
        old == EstateRowsOfSize(in.Length, in.Width)
    IN IF old # {}
       THEN LET e == CHOOSE e \in old : TRUE
            IN [res |-> Result(<<[Id |-> e.id]>>, FALSE),
                table |-> (estatesTable \ {e}) \cup {[e EXCEPT !.created_at = now]}]
       ELSE IF EstateRowAccepted(row)
       THEN [res |-> Result(<<[Id |-> in.Id]>>, FALSE),
             table |-> estatesTable \cup {row}]
       ELSE [res |-> DbError, table |-> estatesTable]

EstateRows(id) == {e \in estatesTable : e.id = id}

GetEstateByEstateId(id) ==
    IF EstateRows(id) = {} THEN Result(<<>>, FALSE)
    ELSE LET e == CHOOSE e \in EstateRows(id) : TRUE
         IN Result(<<[Estate |-> Estate(e.length, e.width)]>>, FALSE)

IsTreeExist(estateId, x, y) ==
    Result(<<[IsExist |-> \E k \in 1..Len(treesTable) :
                             /\ treesTable[k].estate_id = estateId
                             /\ treesTable[k].x = x
                             /\ treesTable[k].y = y]>>, FALSE)

\* the constraints of table trees: primary key, foreign key, height check
TreeRowAccepted(row) ==
    /\ \A k \in 1..Len(treesTable) : treesTable[k].id # row.id
    /\ EstateRows(row.estate_id) # {}
    /\ row.height >= 1 /\ row.height <= 30

CreateTree(in) ==
    LET row == [id |-> in.Id, estate_id |-> in.EstateId, x |-> in.X,
                y |-> in.Y, height |-> in.Height]
    IN IF TreeRowAccepted(row)
       THEN [res |-> Result(<<[Id |-> in.Id]>>, FALSE), table |-> Append(treesTable, row)]
       ELSE [res |-> DbError, table |-> treesTable]

\* the rows of an estate, as indexes into the table
TreeRowsOf(estateId) == {k \in 1..Len(treesTable) : treesTable[k].estate_id = estateId}

RECURSIVE SortedHeights(_)
\* the heights of the rows ks in ascending order
SortedHeights(ks) ==
    IF ks = {} THEN <<>>
    ELSE LET k == CHOOSE k \in ks : \A m \in ks : treesTable[k].height <= treesTable[m].height
         IN <<treesTable[k].height>> \o SortedHeights(ks \ {k})

\* PERCENTILE_CONT(0.5) as a fraction <<numerator, denominator>>
MedianOf(hs) ==
    IF hs = <<>> THEN <<0, 1>>
    ELSE IF Len(hs) % 2 = 1 THEN <<hs[(Len(hs) + 1) \div 2], 1>>
    ELSE LET sum == hs[Len(hs) \div 2] + hs[Len(hs) \div 2 + 1]
         IN IF sum % 2 = 0 THEN <<sum \div 2, 1>> ELSE <<sum, 2>>

GetEstateStatsByEstateId(estateId) ==
    LET hs == SortedHeights(TreeRowsOf(estateId))
    IN Result(<<[Count |-> Len(hs),
                 Max |-> IF hs = <<>> THEN 0 ELSE hs[Len(hs)],
                 Min |-> IF hs = <<>> THEN 0 ELSE hs[1],
                 Median |-> MedianOf(hs)]>>, FALSE)

\* the orders in which a query without ORDER BY may deliver the rows ks
RowOrders(ks) ==
    {o \in [1..Cardinality(ks) -> ks] : \A a, b \in 1..Cardinality(ks) : o[a] = o[b] => a = b}

\* the error of row.Scan when the query gave no row
ErrNoRows == [out |-> <<>>, err |-> TRUE, is |-> "sql.ErrNoRows"]

\* every result the two queries of GetEstateTreesByEstateId can give
GetEstateTreesByEstateId(estateId) ==
    IF EstateRows(estateId) = {} THEN {ErrNoRows}
    ELSE LET e == CHOOSE e \in EstateRows(estateId) : TRUE
         IN {Result(<<[Trees |-> [n \in 1..Len(o) |->
                                    Tree(treesTable[o[n]].x, treesTable[o[n]].y, treesTable[o[n]].height)],
                       Estate |-> Estate(e.length, e.width)]>>, FALSE) :
                o \in RowOrders(TreeRowsOf(estateId))}

(* ---- the tests' MockRepositoryInterface: returns what a test sets up ---- *)
MockEstate == Estate(2, 2)

MockStats == [Count |-> 5, Max |-> 15, Min |-> 5, Median |-> <<10, 1>>]

\* an id the mock can return that uuid.Parse rejects
UnparsableId == -1

UuidParses(id) == id > 0

(* ---- what Server.Repository can return, by method ---- *)
CreateEstateReturns(in) ==
    IF mocked
    THEN {[res |-> Result(<<[Id |-> id]>>, FALSE), table |-> estatesTable] :
              id \in {in.Id, UnparsableId}}
         \cup {[res |-> DbError, table |-> estatesTable]}
    ELSE {CreateEstate(in), [res |-> DbError, table |-> estatesTable]}

PostEstateRejectsBodyDecodeOnly(body) == body = <<>>

PostEstateRejectsBody(body) == body = <<>> \/ ~ValidEstateRequest(body[1])

PostEstateAfterCreateEstateErrorIsBadRequest(res) ==
    IF res.err THEN InvalidRequest
    ELSE IF ~UuidParses(res.out[1].Id) THEN SomethingHappens
    ELSE Response(StatusOK, [id |-> res.out[1].Id])

PostEstateAfterCreateEstate(res) ==
    IF res.err THEN SomethingHappens
    ELSE IF ~UuidParses(res.out[1].Id) THEN SomethingHappens
    ELSE Response(StatusOK, [id |-> res.out[1].Id])

GetEstateByEstateIdReturns(id) ==
    IF mocked
    THEN {Result(<<>>, FALSE), DbError, Result(<<[Estate |-> MockEstate]>>, FALSE)}
    ELSE {GetEstateByEstateId(id), DbError}

IsTreeExistReturns(estateId, x, y) ==
    IF mocked
    THEN {Result(<<[IsExist |-> b]>>, FALSE) : b \in BOOLEAN} \cup {DbError}
    ELSE {IsTreeExist(estateId, x, y), DbError}

CreateTreeReturns(in) ==
    IF mocked
    THEN {[res |-> Result(<<[Id |-> id]>>, FALSE), table |-> treesTable] :
             id \in {in.Id, UnparsableId}}
         \cup {[res |-> DbError, table |-> treesTable]}
    ELSE {CreateTree(in), [res |-> DbError, table |-> treesTable]}

GetEstateStatsByEstateIdReturns(estateId) ==
    IF mocked
    THEN {Result(<<MockStats>>, FALSE), DbError}
    ELSE {GetEstateStatsByEstateId(estateId), DbError}

GetEstateTreesByEstateIdReturns(estateId) ==
    IF mocked
    THEN {Result(<<>>, FALSE), DbError,
          Result(<<[Trees |-> <<>>, Estate |-> MockEstate]>>, FALSE),
          Result(<<[Trees |-> <<Tree(1, 1, 1)>>, Estate |-> MockEstate]>>, FALSE)}
    ELSE GetEstateTreesByEstateId(estateId) \cup {DbError}

(* ---- the decisions of the handlers: <<>> to go on, <<response>> to return ---- *)
\* PostEstateEstateIdTree: decoding and validation of the body
PostTreeRejectsBody(body) == body = <<>> \/ ~ValidTreeRequest(body[1])

\* PostEstateEstateIdTree: the boundary check against the estate
OutOfEstateForgetsY(req, estate) == req.X > estate.Length \/ req.X < 0

OutOfEstate(req, estate) ==
    (req.X > estate.Length \/ req.X < 0) \/ (req.Y > estate.Width \/ req.Y < 0)

PostTreeAfterGetEstate(res, req) ==
    IF res.err THEN <<SomethingHappens>>
    ELSE IF res.out = <<>> THEN <<EstateNotFound>>
    ELSE IF OutOfEstate(req, res.out[1].Estate) THEN <<InvalidRequest>>
    ELSE <<>>

PostTreeAfterIsTreeExistInsertsAnyway(res) ==
    IF res.err THEN <<SomethingHappens>> ELSE <<>>

PostTreeAfterIsTreeExist(res) ==
    IF res.err THEN <<SomethingHappens>>
    ELSE IF res.out[1].IsExist THEN <<InvalidRequest>>
    ELSE <<>>

PostTreeAfterCreateTree(res) ==
    IF res.err THEN SomethingHappens
    ELSE IF ~UuidParses(res.out[1].Id) THEN InvalidRequest
    ELSE Response(StatusOK, [id |-> res.out[1].Id])

StatsAfterGetEstateSkipsNilCheck(res) ==
    IF res.err THEN <<SomethingHappens>> ELSE <<>>

StatsAfterGetEstate(res) ==
    IF res.err THEN <<SomethingHappens>>
    ELSE IF res.out = <<>> THEN <<EstateNotFound>>
    ELSE <<>>

StatsAfterGetStatsSwapsMinMax(res) ==
    IF res.err THEN SomethingHappens
    ELSE Response(StatusOK, [count |-> res.out[1].Count, max |-> res.out[1].Min,
                             min |-> res.out[1].Max, median |-> res.out[1].Median])

StatsAfterGetStats(res) ==
    IF res.err THEN SomethingHappens
    ELSE Response(StatusOK, [count |-> res.out[1].Count, max |-> res.out[1].Max,
                             min |-> res.out[1].Min, median |-> res.out[1].Median])

DronePlanAfterGetTreesNilIsError(res) ==
    IF res.err
    THEN <<Response(StatusInternalServerError, ErrorBody("Invalid request"))>>
    ELSE IF res.out = <<>> THEN <<SomethingHappens>> ELSE <<>>

DronePlanAfterGetTrees(res) ==
    IF res.err
    THEN <<Response(StatusInternalServerError, ErrorBody("Invalid request"))>>
    ELSE IF res.out = <<>> THEN <<EstateNotFound>>
    ELSE <<>>

\* the DronePlanResponse built from the planner's output
DronePlanResponseComputedTotal(out, max) ==
    IF max # <<>>
    THEN Response(StatusOK, [distance |-> out.TotalDistance,
                             rest |-> <<[x |-> out.LastAchievableXCoordinate,
                                         y |-> out.LastAchievableYCoordinate]>>])
    ELSE Response(StatusOK, [distance |-> out.TotalDistance, rest |-> <<>>])

DronePlanResponse(out, max) ==
    IF max # <<>>
    THEN Response(StatusOK,
                  [distance |-> max[1],
                   rest |-> <<[x |-> out.LastAchievableXCoordinate,
                               y |-> out.LastAchievableYCoordinate]>>])
    ELSE Response(StatusOK, [distance |-> out.TotalDistance, rest |-> <<>>])

(* ---------------------------------------------------------------------- *)
(* Inputs                                                                 *)
(* ---------------------------------------------------------------------- *)
TreesOf(length, width) ==
    SeqsUpTo({Tree(x, y, h) : x \in 1..length, y \in 1..width, h \in 1..MaxHeight},
             MaxTrees)

\* a call: the input pointer, the budget pointer and the configured scale
PlannerCall(in, max, scale) == [in |-> in, max |-> max, scale |-> scale]

\* the non-nil inputs: every estate within the bounds with every tree list
EnumeratedInputs ==
    UNION {{CalculateDroneDistanceInput(Estate(l, w), ts) : ts \in TreesOf(l, w)} :
              l \in 1..MaxLength, w \in 1..MaxWidth}

Budgets == {<<>>} \cup {<<m>> : m \in 0..MaxBudget}

EnumeratedCalls ==
    {PlannerCall(in, max, scale) :
        in \in {<<>>} \cup {<<e>> : e \in EnumeratedInputs},
        max \in Budgets,
        scale \in 1..MaxScale}

\* the calls of TestCalculateDroneDistance (the 100 x 100 estate left out)
TestNoTrees ==
    PlannerCall(<<CalculateDroneDistanceInput(Estate(5, 5), <<>>)>>, <<>>, 10)

TestSingleEstateSingleTree ==
    PlannerCall(<<CalculateDroneDistanceInput(Estate(1, 1), <<Tree(1, 1, 5)>>)>>, <<>>, 10)

TestSingleTree ==
    PlannerCall(<<CalculateDroneDistanceInput(Estate(5, 5), <<Tree(3, 3, 5)>>)>>, <<>>, 10)

TestMultipleTrees ==
    PlannerCall(<<CalculateDroneDistanceInput(Estate(5, 5),
                    <<Tree(2, 2, 5), Tree(3, 3, 3), Tree(4, 4, 4)>>)>>, <<>>, 10)

TestTravelled1Row(max) ==
    PlannerCall(<<CalculateDroneDistanceInput(Estate(5, 1), <<Tree(5, 1, 5)>>)>>, <<max>>, 10)

TestTravelled2Rows(max) ==
    PlannerCall(<<CalculateDroneDistanceInput(Estate(5, 2),
                    <<Tree(5, 1, 5), Tree(5, 2, 10)>>)>>, <<max>>, 10)

TestCalls ==
    {TestNoTrees, TestSingleEstateSingleTree, TestSingleTree, TestMultipleTrees,
     TestTravelled1Row(46), TestTravelled1Row(32), TestTravelled1Row(33),
     TestTravelled2Rows(111), TestTravelled2Rows(112)}

\* calls whose tree list names one coordinate twice, in either order
SharedCoordinateCalls ==
    {PlannerCall(<<CalculateDroneDistanceInput(Estate(2, 2), ts)>>, <<>>, 1) :
        ts \in {<<Tree(2, 1, 1), Tree(2, 1, 2)>>,
                <<Tree(2, 1, 2), Tree(2, 1, 1)>>,
                <<Tree(1, 2, 2), Tree(2, 2, 1), Tree(1, 2, 1)>>}}

Init ==
    /\ \E c \in EnumeratedCalls \cup TestCalls \cup SharedCoordinateCalls :
          /\ input = c.in
          /\ maxDistance = c.max
          /\ ScaleFactor = c.scale
    /\ plantationGridArray = <<>>
    /\ totalHorizontalDistance = 0
    /\ totalVerticalDistance = 0
    /\ currentHeight = 0
    /\ previousHeight = 0
    /\ increment = 0
    /\ i = 0
    /\ j = 0
    /\ calculateDroneDistanceOutput = ZeroOutput
    /\ returned = "none"
    /\ err = ""
    /\ pc = "call"
    /\ visited = <<>>
    /\ landings = <<>>
    /\ outcome = "Scanning"
    /\ previous = <<>>
    /\ parked = <<>>
    /\ caller = "test"
    /\ mocked = FALSE
    /\ estatesTable = {}
    /\ treesTable = <<>>
    /\ nextId = 1
    /\ now = 0
    /\ requests = [s \in Slots |-> IdleRequest]
    /\ calls = [s \in Slots |-> <<>>]

\* slip: a nil input answered with the empty output and no error
CallNilReturnsOutput ==
    /\ pc = "call"
    /\ IF input = <<>>
       THEN /\ returned' = "output"
            /\ outcome' = "Completed"
            /\ pc' = "done"
            /\ UNCHANGED <<plantationGridArray, err>>
       ELSE /\ plantationGridArray' = BuildGrid(input[1])
            /\ pc' = IF 0 < input[1].Estate.Width THEN "scan" ELSE "finish"
            /\ UNCHANGED <<returned, err, outcome>>
    /\ UNCHANGED <<input, maxDistance, ScaleFactor, totalHorizontalDistance,
                   totalVerticalDistance, currentHeight, previousHeight,
                   increment, i, j, calculateDroneDistanceOutput, visited,
                   landings, previous, parked, serverVars>>

(* ---------------------------------------------------------------------- *)
(* Actions                                                                *)
(* ---------------------------------------------------------------------- *)
\* entry of CalculateDroneDistance up to the first loop test
Call ==
    /\ pc = "call"
    /\ IF input = <<>>
       THEN /\ returned' = "nil"
            /\ err' = InvalidInputError
            /\ outcome' = "InvalidInput"
            /\ pc' = "done"
            /\ UNCHANGED plantationGridArray
       ELSE /\ plantationGridArray' = BuildGrid(input[1])
            /\ pc' = IF 0 < input[1].Estate.Width THEN "scan" ELSE "finish"
            /\ UNCHANGED <<returned, err, outcome>>
    /\ UNCHANGED <<input, maxDistance, ScaleFactor, totalHorizontalDistance,
                   totalVerticalDistance, currentHeight, previousHeight,
                   increment, i, j, calculateDroneDistanceOutput, visited,
                   landings, previous, parked, serverVars>>

\* slip: the loops go on after the budget check has tripped
AfterMoveKeepsScanning(cur, prev, inc, horizontal, vertical, isLast, nextI, nextJ) ==
    /\ currentHeight' = cur
    /\ previousHeight' = prev
    /\ increment' = inc
    /\ totalHorizontalDistance' = horizontal
    /\ visited' = Append(visited, <<i, j>>)
    /\ IF BudgetExceeded(maxDistance, horizontal, vertical, cur)
       THEN /\ totalVerticalDistance' = vertical
            /\ returned' = "output"
            /\ outcome' = "BudgetExceeded"
            /\ UNCHANGED <<calculateDroneDistanceOutput, landings>>
       ELSE /\ calculateDroneDistanceOutput' =
                   [calculateDroneDistanceOutput EXCEPT
                       !.LastAchievableXCoordinate = j + 1,
                       !.LastAchievableYCoordinate = i + 1]
            /\ IF isLast
               THEN /\ totalVerticalDistance' = vertical + plantationGridArray[i][j]
                    /\ landings' = Append(landings, <<i, j>>)
               ELSE /\ totalVerticalDistance' = vertical
                    /\ UNCHANGED landings
            /\ UNCHANGED <<returned, outcome>>
    /\ i' = nextI
    /\ j' = nextJ
    /\ pc' = IF nextI < input[1].Estate.Width THEN "scan" ELSE "finish"
    /\ UNCHANGED <<input, maxDistance, ScaleFactor, plantationGridArray, err,
                   previous, parked, serverVars>>

\* slip: the cell that trips the budget check is recorded as reached
AfterMoveRecordsTrippingCell(cur, prev, inc, horizontal, vertical, isLast, nextI, nextJ) ==
    /\ currentHeight' = cur
    /\ previousHeight' = prev
    /\ increment' = inc
    /\ totalHorizontalDistance' = horizontal
    /\ visited' = Append(visited, <<i, j>>)
    /\ IF BudgetExceeded(maxDistance, horizontal, vertical, cur)
       THEN /\ totalVerticalDistance' = vertical
            /\ calculateDroneDistanceOutput' =
                   [calculateDroneDistanceOutput EXCEPT
                       !.LastAchievableXCoordinate = j + 1,
                       !.LastAchievableYCoordinate = i + 1]
            /\ returned' = "output"
            /\ outcome' = "BudgetExceeded"
            /\ pc' = "done"
            /\ UNCHANGED <<landings, i, j>>
       ELSE /\ calculateDroneDistanceOutput' =
                   [calculateDroneDistanceOutput EXCEPT
                       !.LastAchievableXCoordinate = j + 1,
                       !.LastAchievableYCoordinate = i + 1]
            /\ IF isLast
               THEN /\ totalVerticalDistance' = vertical + plantationGridArray[i][j]
                    /\ landings' = Append(landings, <<i, j>>)
               ELSE /\ totalVerticalDistance' = vertical
                    /\ UNCHANGED landings
            /\ i' = nextI
            /\ j' = nextJ
            /\ pc' = IF nextI < input[1].Estate.Width THEN "scan" ELSE "finish"
            /\ UNCHANGED <<returned, outcome>>
    /\ UNCHANGED <<input, maxDistance, ScaleFactor, plantationGridArray, err,
                   previous, parked, serverVars>>

\* the tail shared by both row loops, from the budget check on
AfterMove(cur, prev, inc, horizontal, vertical, isLast, nextI, nextJ) ==
    /\ currentHeight' = cur
    /\ previousHeight' = prev
    /\ increment' = inc
    /\ totalHorizontalDistance' = horizontal
    /\ visited' = Append(visited, <<i, j>>)
    /\ IF BudgetExceeded(maxDistance, horizontal, vertical, cur)
       THEN /\ totalVerticalDistance' = vertical
            /\ returned' = "output"
            /\ outcome' = "BudgetExceeded"
            /\ pc' = "done"
            /\ UNCHANGED <<calculateDroneDistanceOutput, landings, i, j>>
       ELSE /\ calculateDroneDistanceOutput' =
                   [calculateDroneDistanceOutput EXCEPT
                       !.LastAchievableXCoordinate = j + 1,
                       !.LastAchievableYCoordinate = i + 1]
            /\ IF isLast
               THEN /\ totalVerticalDistance' = vertical + plantationGridArray[i][j]
                    /\ landings' = Append(landings, <<i, j>>)
               ELSE /\ totalVerticalDistance' = vertical
                    /\ UNCHANGED landings
            /\ i' = nextI
            /\ j' = nextJ
            /\ pc' = IF nextI < input[1].Estate.Width THEN "scan" ELSE "finish"
            /\ UNCHANGED <<returned, outcome>>
    /\ UNCHANGED <<input, maxDistance, ScaleFactor, plantationGridArray, err,
                   previous, parked, serverVars>>

\* one iteration of the inner loop of an even row (columns ascending)
ScanEvenRow ==
    /\ pc = "scan"
    /\ i % 2 = 0
    /\ LET estate == input[1].Estate
           cur == plantationGridArray[i][j]
           prev == PreviousHeightEven(plantationGridArray, i, j, previousHeight)
           inc == Increment(cur, prev)
           next == NextCellEven(i, j, estate)
       IN AfterMove(cur, prev, inc,
                    totalHorizontalDistance + HorizontalStepEven(i, j),
                    totalVerticalDistance + inc,
                    IsLastCellEven(i, j, estate), next[1], next[2])

\* one iteration of the inner loop of an odd row (columns descending)
ScanOddRow ==
    /\ pc = "scan"
    /\ i % 2 = 1
    /\ LET estate == input[1].Estate
           cur == plantationGridArray[i][j]
           prev == PreviousHeightOdd(plantationGridArray, i, j, estate.Length)
           inc == Increment(cur, prev)
           next == NextCellOdd(i, j, estate)
       IN AfterMove(cur, prev, inc,
                    totalHorizontalDistance + HorizontalStepOdd(i, j),
                    totalVerticalDistance + inc,
                    IsLastCellOdd(i, j, estate), next[1], next[2])

\* after the outer loop: the totals are stored and the output returned
Finish ==
    /\ pc = "finish"
    /\ calculateDroneDistanceOutput' =
          StoreTotals(calculateDroneDistanceOutput, totalHorizontalDistance,
                      totalVerticalDistance)
    /\ returned' = "output"
    /\ outcome' = "Completed"
    /\ pc' = "done"
    /\ UNCHANGED <<input, maxDistance, ScaleFactor, plantationGridArray,
                   totalHorizontalDistance, totalVerticalDistance,
                   currentHeight, previousHeight, increment, i, j, err,
                   visited, landings, previous, parked, serverVars>>

\* the caller calls again with the same input and the budget raised by one:
\* every local of the function starts afresh
CallAgain ==
    /\ caller = "test"
    /\ pc = "done"
    /\ returned = "output"
    /\ maxDistance # <<>>
    /\ previous = <<>>
    /\ previous' = <<[max |-> maxDistance,
                      out |-> calculateDroneDistanceOutput,
                      outcome |-> outcome]>>
    /\ maxDistance' = <<maxDistance[1] + 1>>
    /\ plantationGridArray' = <<>>
    /\ totalHorizontalDistance' = 0
    /\ totalVerticalDistance' = 0
    /\ currentHeight' = 0
    /\ previousHeight' = 0
    /\ increment' = 0
    /\ i' = 0
    /\ j' = 0
    /\ calculateDroneDistanceOutput' = ZeroOutput
    /\ returned' = "none"
    /\ pc' = "call"
    /\ visited' = <<>>
    /\ landings' = <<>>
    /\ outcome' = "Scanning"
    /\ UNCHANGED <<input, ScaleFactor, err, parked, serverVars>>

\* one call of CalculateDroneDistance, from its entry to its return
Next == Call \/ ScanEvenRow \/ ScanOddRow \/ Finish

Spec == Init /\ [][Next]_vars

\* a call followed by a second call on the same estate with a larger budget
NextAgain == Call \/ ScanEvenRow \/ ScanOddRow \/ Finish \/ CallAgain

SpecAgain == Init /\ [][NextAgain]_vars

\* the calls followed to their return: the nil input, the inputs with at
\* most one tree, the tests' inputs and those naming a coordinate twice
InitLive ==
    /\ Init
    /\ \/ input = <<>>
       \/ Len(input[1].Trees) <= 1
       \/ PlannerCall(input, maxDistance, ScaleFactor)
             \in TestCalls \cup SharedCoordinateCalls

\* the call runs to its return: nothing in the function blocks or waits
SpecLive ==
    InitLive /\ [][NextAgain]_vars
             /\ WF_vars(Call \/ ScanEvenRow \/ ScanOddRow \/ Finish)

(* ---------------------------------------------------------------------- *)
(* Two calls running concurrently on one Server                           *)
(* ---------------------------------------------------------------------- *)
\* the parameters and local variables of the call that is running
Locals ==
    [input |-> input, maxDistance |-> maxDistance,
     plantationGridArray |-> plantationGridArray,
     totalHorizontalDistance |-> totalHorizontalDistance,
     totalVerticalDistance |-> totalVerticalDistance,
     currentHeight |-> currentHeight, previousHeight |-> previousHeight,
     increment |-> increment, i |-> i, j |-> j,
     calculateDroneDistanceOutput |-> calculateDroneDistanceOutput,
     returned |-> returned, err |-> err, pc |-> pc, visited |-> visited,
     landings |-> landings, outcome |-> outcome, overlapped |-> FALSE]

\* the locals of a call that has not started yet
EntryLocals(in, max) ==
    [input |-> in, maxDistance |-> max, plantationGridArray |-> <<>>,
     totalHorizontalDistance |-> 0, totalVerticalDistance |-> 0,
     currentHeight |-> 0, previousHeight |-> 0, increment |-> 0, i |-> 0,
     j |-> 0, calculateDroneDistanceOutput |-> ZeroOutput, returned |-> "none",
     err |-> "", pc |-> "call", visited |-> <<>>, landings |-> <<>>,
     outcome |-> "Scanning", overlapped |-> FALSE]

\* the inputs and budgets of the concurrent calls
PairInputs ==
    {<<>>} \cup
    UNION {{<<CalculateDroneDistanceInput(Estate(l, w), ts)>> :
               ts \in {<<>>, <<Tree(1, 1, 2)>>, <<Tree(l, w, 1)>>}} :
              l \in 1..2, w \in 1..2}

PairBudgets == {<<>>, <<3>>, <<6>>}

InitPair ==
    /\ input \in PairInputs
    /\ maxDistance \in PairBudgets
    /\ ScaleFactor \in 1..MaxScale
    /\ plantationGridArray = <<>>
    /\ totalHorizontalDistance = 0
    /\ totalVerticalDistance = 0
    /\ currentHeight = 0
    /\ previousHeight = 0
    /\ increment = 0
    /\ i = 0
    /\ j = 0
    /\ calculateDroneDistanceOutput = ZeroOutput
    /\ returned = "none"
    /\ err = ""
    /\ pc = "call"
    /\ visited = <<>>
    /\ landings = <<>>
    /\ outcome = "Scanning"
    /\ previous = <<>>
    /\ \E in \in PairInputs, max \in PairBudgets : parked = <<EntryLocals(in, max)>>
    /\ caller = "pair"
    /\ mocked = FALSE
    /\ estatesTable = {}
    /\ treesTable = <<>>
    /\ nextId = 1
    /\ now = 0
    /\ requests = [s \in Slots |-> IdleRequest]
    /\ calls = [s \in Slots |-> <<>>]

\* slip: previousHeight kept in the Server, shared by the calls
SwitchSharesPreviousHeight ==
    /\ caller = "pair"
    /\ parked # <<>>
    /\ parked' = <<[Locals EXCEPT !.overlapped =
                       \/ parked[1].overlapped
                       \/ pc = "scan" /\ parked[1].pc = "scan"]>>
    /\ input' = parked[1].input
    /\ maxDistance' = parked[1].maxDistance
    /\ plantationGridArray' = parked[1].plantationGridArray
    /\ totalHorizontalDistance' = parked[1].totalHorizontalDistance
    /\ totalVerticalDistance' = parked[1].totalVerticalDistance
    /\ currentHeight' = parked[1].currentHeight
    /\ increment' = parked[1].increment
    /\ i' = parked[1].i
    /\ j' = parked[1].j
    /\ calculateDroneDistanceOutput' = parked[1].calculateDroneDistanceOutput
    /\ returned' = parked[1].returned
    /\ err' = parked[1].err
    /\ pc' = parked[1].pc
    /\ visited' = parked[1].visited
    /\ landings' = parked[1].landings
    /\ outcome' = parked[1].outcome
    /\ UNCHANGED <<previousHeight, ScaleFactor, previous, serverVars>>

\* the scheduler runs the other call: each call keeps its own parameters and
\* locals, only s.Config.ScaleFactor belongs to both
Switch ==
    /\ caller = "pair"
    /\ parked # <<>>
    /\ parked' = <<[Locals EXCEPT !.overlapped =
                       \/ parked[1].overlapped
                       \/ pc = "scan" /\ parked[1].pc = "scan"]>>
    /\ input' = parked[1].input
    /\ maxDistance' = parked[1].maxDistance
    /\ plantationGridArray' = parked[1].plantationGridArray
    /\ totalHorizontalDistance' = parked[1].totalHorizontalDistance
    /\ totalVerticalDistance' = parked[1].totalVerticalDistance
    /\ currentHeight' = parked[1].currentHeight
    /\ previousHeight' = parked[1].previousHeight
    /\ increment' = parked[1].increment
    /\ i' = parked[1].i
    /\ j' = parked[1].j
    /\ calculateDroneDistanceOutput' = parked[1].calculateDroneDistanceOutput
    /\ returned' = parked[1].returned
    /\ err' = parked[1].err
    /\ pc' = parked[1].pc
    /\ visited' = parked[1].visited
    /\ landings' = parked[1].landings
    /\ outcome' = parked[1].outcome
    /\ UNCHANGED <<ScaleFactor, previous, serverVars>>

NextPair == Call \/ ScanEvenRow \/ ScanOddRow \/ Finish \/ Switch

SpecPair == InitPair /\ [][NextPair]_vars

(* ---------------------------------------------------------------------- *)
(* The handlers, one action per repository call of a request              *)
(* ---------------------------------------------------------------------- *)
plannerVars ==
    <<input, maxDistance, plantationGridArray, totalHorizontalDistance,
      totalVerticalDistance, currentHeight, previousHeight, increment, i, j,
      calculateDroneDistanceOutput, returned, err, pc, visited, landings,
      outcome, previous, parked>>

\* the database the server starts on, and the ids and bodies requests carry
SeedEstates == {[id |-> 1, length |-> 2, width |-> 2, created_at |-> 0]}

EstateIds == {1, 2}

TreeBodies ==
    {<<>>} \cup {<<Tree(x, y, h)>> : x \in 0..3, y \in 0..3, h \in {1, 2, 31}}

\* the max_distance query parameter: absent, or a budget
DronePlanMaxDistances == {<<>>, <<0>>, <<4>>, <<40>>}

InitServer ==
    /\ input = <<>>
    /\ maxDistance = <<>>
    /\ ScaleFactor \in 1..MaxScale
    /\ plantationGridArray = <<>>
    /\ totalHorizontalDistance = 0
    /\ totalVerticalDistance = 0
    /\ currentHeight = 0
    /\ previousHeight = 0
    /\ increment = 0
    /\ i = 0
    /\ j = 0
    /\ calculateDroneDistanceOutput = ZeroOutput
    /\ returned = "none"
    /\ err = ""
    /\ pc = "idle"
    /\ visited = <<>>
    /\ landings = <<>>
    /\ outcome = "Scanning"
    /\ previous = <<>>
    /\ parked = <<>>
    /\ caller = "none"
    /\ mocked \in BOOLEAN
    /\ estatesTable = SeedEstates
    /\ treesTable = <<>>
    /\ nextId = 3
    /\ now = 1
    /\ requests = [s \in Slots |-> IdleRequest]
    /\ calls = [s \in Slots |-> <<>>]

\* the request of slot s returns the response r
Respond(s, r) ==
    [requests[s] EXCEPT !.at = "responded", !.status = r.status, !.resp = <<r.body>>]

\* the bodies of POST /estate: undecodable, or length and width
EstateBodies ==
    {<<>>} \cup {<<[Length |-> l, Width |-> w]>> : l \in {0, 2, 3}, w \in {2, 50001}}

\* PostEstate: decode, validate, uuid.New(), CreateEstate and the response
PostEstate(s) ==
    /\ caller # "test"
    /\ requests[s].at = "idle"
    /\ \E body \in EstateBodies :
          LET rq == [requests[s] EXCEPT !.handler = "PostEstate", !.body = body]
          IN IF PostEstateRejectsBody(body)
             THEN /\ requests' = [requests EXCEPT ![s] =
                        [rq EXCEPT !.at = "responded",
                                   !.status = InvalidRequest.status,
                                   !.resp = <<InvalidRequest.body>>]]
                  /\ UNCHANGED <<calls, estatesTable, nextId, now>>
             ELSE LET in == [Id |-> nextId, Length |-> body[1].Length,
                             Width |-> body[1].Width]
                  IN \E ret \in CreateEstateReturns(in) :
                        LET r == PostEstateAfterCreateEstate(ret.res)
                        IN /\ calls' = [calls EXCEPT ![s] =
                                 Append(@, CallOf("CreateEstate", in, ret.res))]
                           /\ estatesTable' = ret.table
                           /\ nextId' = nextId + 1
                           /\ now' = now + 1
                           /\ requests' = [requests EXCEPT ![s] =
                                 [rq EXCEPT !.at = "responded",
                                            !.status = r.status,
                                            !.resp = <<r.body>>]]
    /\ UNCHANGED <<plannerVars, ScaleFactor, caller, mocked, treesTable>>

\* PostEstateEstateIdTree from the decoding of the body to the boundary check
PostEstateEstateIdTree(s) ==
    /\ caller # "test"
    /\ requests[s].at = "idle"
    /\ \E estateId \in EstateIds, body \in TreeBodies :
          LET rq == [requests[s] EXCEPT !.handler = "PostEstateEstateIdTree",
                                        !.estateId = estateId, !.body = body]
          IN IF PostTreeRejectsBody(body)
             THEN /\ requests' = [requests EXCEPT ![s] =
                        [rq EXCEPT !.at = "responded",
                                   !.status = InvalidRequest.status,
                                   !.resp = <<InvalidRequest.body>>]]
                  /\ UNCHANGED calls
             ELSE \E res \in GetEstateByEstateIdReturns(estateId) :
                     LET early == PostTreeAfterGetEstate(res, body[1])
                     IN /\ calls' = [calls EXCEPT ![s] =
                              Append(@, CallOf("GetEstateByEstateId", estateId, res))]
                        /\ requests' = [requests EXCEPT ![s] =
                              IF early # <<>>
                              THEN [rq EXCEPT !.at = "responded",
                                              !.status = early[1].status,
                                              !.resp = <<early[1].body>>]
                              ELSE [rq EXCEPT !.at = "IsTreeExist",
                                              !.estate = res.out]]
    /\ UNCHANGED <<plannerVars, ScaleFactor, caller, mocked, estatesTable,
                   treesTable, nextId, now>>

\* PostEstateEstateIdTree: the IsTreeExist call and the check of its answer
PostEstateEstateIdTreeIsTreeExist(s) ==
    /\ requests[s].at = "IsTreeExist"
    /\ LET req == requests[s].body[1]
       IN \E res \in IsTreeExistReturns(requests[s].estateId, req.X, req.Y) :
             LET early == PostTreeAfterIsTreeExist(res)
             IN /\ calls' = [calls EXCEPT ![s] =
                      Append(@, CallOf("IsTreeExist", req, res))]
                /\ requests' = [requests EXCEPT ![s] =
                      IF early # <<>> THEN Respond(s, early[1])
                      ELSE [@ EXCEPT !.at = "CreateTree"]]
    /\ UNCHANGED <<plannerVars, ScaleFactor, caller, mocked, estatesTable,
                   treesTable, nextId, now>>

\* PostEstateEstateIdTree: uuid.New(), the CreateTree call and the response
PostEstateEstateIdTreeCreateTree(s) ==
    /\ requests[s].at = "CreateTree"
    /\ LET req == requests[s].body[1]
           in == [Id |-> nextId, EstateId |-> requests[s].estateId,
                  X |-> req.X, Y |-> req.Y, Height |-> req.Height]
       IN \E ret \in CreateTreeReturns(in) :
             /\ calls' = [calls EXCEPT ![s] = Append(@, CallOf("CreateTree", in, ret.res))]
             /\ treesTable' = ret.table
             /\ requests' = [requests EXCEPT ![s] =
                   Respond(s, PostTreeAfterCreateTree(ret.res))]
    /\ nextId' = nextId + 1
    /\ UNCHANGED <<plannerVars, ScaleFactor, caller, mocked, estatesTable, now>>

\* GetEstateEstateIdStats up to the check of the estate
GetEstateEstateIdStats(s) ==
    /\ caller # "test"
    /\ requests[s].at = "idle"
    /\ \E estateId \in EstateIds : \E res \in GetEstateByEstateIdReturns(estateId) :
          LET rq == [requests[s] EXCEPT !.handler = "GetEstateEstateIdStats",
                                        !.estateId = estateId]
              early == StatsAfterGetEstate(res)
          IN /\ calls' = [calls EXCEPT ![s] =
                   Append(@, CallOf("GetEstateByEstateId", estateId, res))]
             /\ requests' = [requests EXCEPT ![s] =
                   IF early # <<>>
                   THEN [rq EXCEPT !.at = "responded", !.status = early[1].status,
                                   !.resp = <<early[1].body>>]
                   ELSE [rq EXCEPT !.at = "GetEstateStatsByEstateId",
                                   !.estate = res.out]]
    /\ UNCHANGED <<plannerVars, ScaleFactor, caller, mocked, estatesTable,
                   treesTable, nextId, now>>

\* GetEstateEstateIdStats: the statistics query and the response
GetEstateEstateIdStatsQuery(s) ==
    /\ requests[s].at = "GetEstateStatsByEstateId"
    /\ \E res \in GetEstateStatsByEstateIdReturns(requests[s].estateId) :
          /\ calls' = [calls EXCEPT ![s] =
                Append(@, CallOf("GetEstateStatsByEstateId", requests[s].estateId, res))]
          /\ requests' = [requests EXCEPT ![s] = Respond(s, StatsAfterGetStats(res))]
    /\ UNCHANGED <<plannerVars, ScaleFactor, caller, mocked, estatesTable,
                   treesTable, nextId, now>>

\* GetEstateEstateIdDronePlan up to the check of the repository's answer
GetEstateEstateIdDronePlan(s) ==
    /\ caller # "test"
    /\ requests[s].at = "idle"
    /\ \E estateId \in EstateIds, max \in DronePlanMaxDistances :
          \E res \in GetEstateTreesByEstateIdReturns(estateId) :
          LET rq == [requests[s] EXCEPT !.handler = "GetEstateEstateIdDronePlan",
                                        !.estateId = estateId, !.max = max]
              early == DronePlanAfterGetTrees(res)
          IN /\ calls' = [calls EXCEPT ![s] =
                   Append(@, CallOf("GetEstateTreesByEstateId", estateId, res))]
             /\ requests' = [requests EXCEPT ![s] =
                   IF early # <<>>
                   THEN [rq EXCEPT !.at = "responded", !.status = early[1].status,
                                   !.resp = <<early[1].body>>]
                   ELSE [rq EXCEPT !.at = "CalculateDroneDistance",
                                   !.estate = res.out]]
    /\ UNCHANGED <<plannerVars, ScaleFactor, caller, mocked, estatesTable,
                   treesTable, nextId, now>>

\* GetEstateEstateIdDronePlan: the call of s.CalculateDroneDistance
GetEstateEstateIdDronePlanCalculate(s) ==
    /\ requests[s].at = "CalculateDroneDistance"
    /\ caller = "none"
    /\ LET in == CalculateDroneDistanceInput(requests[s].estate[1].Estate,
                                             requests[s].estate[1].Trees)
       IN /\ input' = <<in>>
          /\ calls' = [calls EXCEPT ![s] =
                Append(@, CallOf("CalculateDroneDistance", in, Result(<<>>, FALSE)))]
    /\ maxDistance' = requests[s].max
    /\ caller' = s
    /\ plantationGridArray' = <<>>
    /\ totalHorizontalDistance' = 0
    /\ totalVerticalDistance' = 0
    /\ currentHeight' = 0
    /\ previousHeight' = 0
    /\ increment' = 0
    /\ i' = 0
    /\ j' = 0
    /\ calculateDroneDistanceOutput' = ZeroOutput
    /\ returned' = "none"
    /\ err' = ""
    /\ pc' = "call"
    /\ visited' = <<>>
    /\ landings' = <<>>
    /\ outcome' = "Scanning"
    /\ requests' = [requests EXCEPT ![s].at = "calculating"]
    /\ UNCHANGED <<ScaleFactor, previous, parked, mocked, estatesTable,
                   treesTable, nextId, now>>

\* GetEstateEstateIdDronePlan: from the planner's return to the response
GetEstateEstateIdDronePlanRespond(s) ==
    /\ requests[s].at = "calculating"
    /\ caller = s
    /\ pc = "done"
    /\ requests' = [requests EXCEPT ![s] =
          IF err # "" THEN Respond(s, SomethingHappens)
          ELSE [Respond(s, DronePlanResponse(calculateDroneDistanceOutput,
                                             requests[s].max))
                   EXCEPT !.planned = <<calculateDroneDistanceOutput>>]]
    /\ caller' = "none"
    /\ UNCHANGED <<plannerVars, ScaleFactor, mocked, estatesTable, treesTable,
                   nextId, now, calls>>

NextServer ==
    \/ \E s \in Slots : PostEstate(s)
    \/ \E s \in Slots : PostEstateEstateIdTree(s)
    \/ \E s \in Slots : PostEstateEstateIdTreeIsTreeExist(s)
    \/ \E s \in Slots : PostEstateEstateIdTreeCreateTree(s)
    \/ \E s \in Slots : GetEstateEstateIdStats(s)
    \/ \E s \in Slots : GetEstateEstateIdStatsQuery(s)
    \/ \E s \in Slots : GetEstateEstateIdDronePlan(s)
    \/ \E s \in Slots : GetEstateEstateIdDronePlanCalculate(s)
    \/ \E s \in Slots : GetEstateEstateIdDronePlanRespond(s)
    \/ Call
    \/ ScanEvenRow
    \/ ScanOddRow
    \/ Finish

SpecServer == InitServer /\ [][NextServer]_vars

(* ---------------------------------------------------------------------- *)
(* The patrol path of the specification, stated without the loops         *)
(* ---------------------------------------------------------------------- *)
EstateOf == input[1].Estate

Cells == EstateOf.Width * EstateOf.Length

ThisCall == PlannerCall(input, maxDistance, ScaleFactor)

\* the k-th cell (k = 1..Cells) of the serpentine order, as <<row, column>>
SerpentineCell(k) ==
    LET r == (k - 1) \div EstateOf.Length
        p == (k - 1) % EstateOf.Length
    IN <<r, IF r % 2 = 0 THEN p ELSE EstateOf.Length - 1 - p>>

\* h(cell): 1 for a bare cell, height + 1 of the tree listed last at the cell
CellHeight(r, c) ==
    LET ts == input[1].Trees
        at == {k \in 1..Len(ts) : ts[k].X = c + 1 /\ ts[k].Y = r + 1}
    IN IF at = {} THEN 1
       ELSE ts[CHOOSE k \in at : \A m \in at : m <= k].Height + 1

PathHeight(k) == CellHeight(SerpentineCell(k)[1], SerpentineCell(k)[2])

RECURSIVE SumOfClimbs(_)
\* sum over k = 2..n of |h(c_k) - h(c_(k-1))|
SumOfClimbs(n) ==
    IF n < 2 THEN 0
    ELSE SumOfClimbs(n - 1) + Abs(PathHeight(n) - PathHeight(n - 1))

\* vertical travel up to and including the move into the n-th cell
PathVertical(n) == IF n = 0 THEN 0 ELSE PathHeight(1) + SumOfClimbs(n)

\* the quantity the budget check compares with maxDistance at the n-th cell
PathChecked(n) == ScaleFactor * (n - 1) + PathVertical(n) + PathHeight(n)

\* the final cell: column Length - 1 when Width is odd, column 0 when even
FinalCell ==
    <<EstateOf.Width - 1,
      IF EstateOf.Width % 2 = 1 THEN EstateOf.Length - 1 ELSE 0>>

Adjacent(a, b) ==
    \/ a[1] = b[1] /\ Abs(a[2] - b[2]) = 1
    \/ a[2] = b[2] /\ Abs(a[1] - b[1]) = 1

AllCells == (0..(EstateOf.Width - 1)) \X (0..(EstateOf.Length - 1))

NoBudgetResult == returned = "output" /\ maxDistance = <<>>

(* ---------------------------------------------------------------------- *)
(* Claims                                                                 *)
(* ---------------------------------------------------------------------- *)

\* C1: without a budget the returned TotalDistance is
\* ScaleFactor*(W*L-1) + h(c_1) + sum_{k=2..W*L} |h(c_k) - h(c_(k-1))| + h(c_(W*L))
\* along the serpentine order; the tests' cases give 242, 12 and 252.
C1_TotalDistanceClosedForm ==
    /\ NoBudgetResult =>
          calculateDroneDistanceOutput.TotalDistance =
             ScaleFactor * (Cells - 1) + PathHeight(1) + SumOfClimbs(Cells)
                + PathHeight(Cells)
    /\ (returned = "output" /\ ThisCall = TestNoTrees) =>
          calculateDroneDistanceOutput.TotalDistance = 242
    /\ (returned = "output" /\ ThisCall = TestSingleEstateSingleTree) =>
          calculateDroneDistanceOutput.TotalDistance = 12
    /\ (returned = "output" /\ ThisCall = TestSingleTree) =>
          calculateDroneDistanceOutput.TotalDistance = 252

C1_Witness ==
    /\ returned = "output"
    /\ ThisCall = TestSingleTree
    /\ calculateDroneDistanceOutput.TotalDistance = 252

\* C2: without a budget, on a non-nil input, the result has
\* TotalDistance = TotalHorizontalDistance + TotalVerticalDistance.
C2_TotalIsSumOfComponents ==
    NoBudgetResult =>
       calculateDroneDistanceOutput.TotalDistance =
          calculateDroneDistanceOutput.TotalHorizontalDistance
             + calculateDroneDistanceOutput.TotalVerticalDistance

C2_Witness ==
    /\ NoBudgetResult
    /\ input[1].Trees # <<>>
    /\ EstateOf.Width > 1
    /\ calculateDroneDistanceOutput.TotalHorizontalDistance > 0
    /\ calculateDroneDistanceOutput.TotalVerticalDistance > 2

\* C3 as stated: after processing only the first cell (row 0, column 0) the
\* accumulated vertical distance is 0 whatever that cell's height.
C3_FirstCellZeroVertical ==
    Len(visited) = 1 => totalVerticalDistance = 0

\* C3 as amended: the first cell is compared with a previous height of 0, so
\* it contributes its own height: after processing only that cell the
\* vertical distance is h(1,1), plus the landing cost h(1,1) when the estate
\* is a single cell and the budget check passed.
C3_FirstCellClimbsItsHeight ==
    Len(visited) = 1 =>
       /\ visited[1] = <<0, 0>>
       /\ increment = CellHeight(0, 0)
       /\ totalVerticalDistance =
             CellHeight(0, 0)
                + (IF Cells = 1 /\ outcome # "BudgetExceeded"
                   THEN CellHeight(0, 0) ELSE 0)

C3_Witness ==
    /\ Len(visited) = 1
    /\ pc = "scan"
    /\ CellHeight(0, 0) > 1
    /\ totalVerticalDistance = CellHeight(0, 0)

\* C4 as stated: with an empty tree list and no budget the returned
\* TotalVerticalDistance is 1.
C4_NoTreesVerticalIsOne ==
    (NoBudgetResult /\ input[1].Trees = <<>>) =>
       calculateDroneDistanceOutput.TotalVerticalDistance = 1

\* C4 as amended: with an empty tree list and no budget the returned
\* TotalVerticalDistance is 2: the climb of 1 into the first cell and the
\* landing cost of 1 at the final cell.
C4_NoTreesVerticalIsTwo ==
    (NoBudgetResult /\ input[1].Trees = <<>>) =>
       calculateDroneDistanceOutput.TotalVerticalDistance = 2

C4_Witness ==
    /\ NoBudgetResult
    /\ input[1].Trees = <<>>
    /\ EstateOf.Width = 2
    /\ EstateOf.Length > 1
    /\ calculateDroneDistanceOutput.TotalVerticalDistance = 2

\* C5: a completed traversal (no budget, or budget never exceeded) returns
\* TotalHorizontalDistance = ScaleFactor * (W*L - 1), whatever the trees.
C5_HorizontalClosedForm ==
    outcome = "Completed" =>
       calculateDroneDistanceOutput.TotalHorizontalDistance =
          ScaleFactor * (Cells - 1)

C5_Witness ==
    /\ outcome = "Completed"
    /\ maxDistance # <<>>
    /\ input[1].Trees # <<>>
    /\ EstateOf.Width >= 2
    /\ EstateOf.Length >= 2
    /\ calculateDroneDistanceOutput.TotalHorizontalDistance > 0

\* C6: the cells are processed in an order in which consecutive cells are
\* grid-adjacent and no cell is processed twice; a traversal not cut short
\* by the budget has processed every cell of the W x L grid exactly once.
C6_EveryCellOnceAdjacent ==
    input # <<>> =>
       /\ \A k \in 1..(Len(visited) - 1) : Adjacent(visited[k], visited[k + 1])
       /\ \A k, m \in 1..Len(visited) : visited[k] = visited[m] => k = m
       /\ \A k \in 1..Len(visited) : visited[k] \in AllCells
       /\ (pc = "finish" \/ outcome = "Completed") =>
             /\ Len(visited) = Cells
             /\ {visited[k] : k \in 1..Len(visited)} = AllCells

C6_Witness ==
    /\ outcome = "Completed"
    /\ EstateOf.Width >= 3
    /\ EstateOf.Length >= 2
    /\ Len(visited) = Cells
    /\ visited[EstateOf.Length] = <<0, EstateOf.Length - 1>>
    /\ visited[EstateOf.Length + 1] = <<1, EstateOf.Length - 1>>

\* C7: the landing branch runs at most once and only at the final cell
\* (x = L, y = W when W is odd; x = 1, y = W when W is even), after every
\* cell has been processed; a completed traversal has run it exactly once;
\* apart from it the vertical distance is the climb into the first cell
\* plus the height differences along the path.
C7_LandingOnceAtFinalCell ==
    input # <<>> =>
       /\ Len(landings) <= 1
       /\ landings # <<>> => landings[1] = FinalCell /\ Len(visited) = Cells
       /\ outcome = "Completed" => landings = <<FinalCell>>
       /\ totalVerticalDistance =
             PathVertical(Len(visited))
                + (IF landings # <<>>
                   THEN CellHeight(FinalCell[1], FinalCell[2]) ELSE 0)

C7_Witness ==
    /\ outcome = "Completed"
    /\ EstateOf.Width % 2 = 0
    /\ EstateOf.Length >= 2
    /\ landings = <<<<EstateOf.Width - 1, 0>>>>
    /\ CellHeight(EstateOf.Width - 1, 0) > 1

\* C8: with a budget, the call stops at the first cell k of the serpentine
\* order whose checked quantity (horizontal + vertical up to and including
\* the move into k, plus h(k)) exceeds maxDistance; nothing runs after the
\* stop; the last coordinates are those (1-based) of the cell before k.
C8_StopsAtFirstUnaffordableCell ==
    /\ outcome = "BudgetExceeded" =>
          LET k == Len(visited)
          IN /\ maxDistance # <<>>
             /\ pc = "done"
             /\ k >= 1
             /\ visited[k] = SerpentineCell(k)
             /\ PathChecked(k) > maxDistance[1]
             /\ \A m \in 1..(k - 1) : PathChecked(m) <= maxDistance[1]
             /\ k > 1 =>
                   /\ calculateDroneDistanceOutput.LastAchievableXCoordinate
                         = SerpentineCell(k - 1)[2] + 1
                   /\ calculateDroneDistanceOutput.LastAchievableYCoordinate
                         = SerpentineCell(k - 1)[1] + 1
    /\ (outcome = "Completed" /\ maxDistance # <<>>) =>
          \A m \in 1..Cells : PathChecked(m) <= maxDistance[1]

C8_Witness ==
    /\ outcome = "BudgetExceeded"
    /\ Len(visited) > EstateOf.Length + 1
    /\ EstateOf.Length >= 2
    /\ input[1].Trees # <<>>
    /\ calculateDroneDistanceOutput.LastAchievableYCoordinate = 2

\* C9: in the budget-exceeded case the returned TotalDistance and its
\* horizontal and vertical components are the travel accumulated through
\* the last affordable cell (the cell before the one that trips the check).
C9_PartialDistancesReturned ==
    outcome = "BudgetExceeded" =>
       LET n == Len(visited) - 1
           horizontal == IF n = 0 THEN 0 ELSE ScaleFactor * (n - 1)
           vertical == PathVertical(n)
       IN /\ calculateDroneDistanceOutput.TotalHorizontalDistance = horizontal
          /\ calculateDroneDistanceOutput.TotalVerticalDistance = vertical
          /\ calculateDroneDistanceOutput.TotalDistance = horizontal + vertical

\* C10: every returned result, with or without a budget and for every
\* non-negative maxDistance, has 1 <= LastAchievableXCoordinate <= L and
\* 1 <= LastAchievableYCoordinate <= W.
C10_LastCoordinatesInEstate ==
    returned = "output" =>
       /\ calculateDroneDistanceOutput.LastAchievableXCoordinate \in 1..EstateOf.Length
       /\ calculateDroneDistanceOutput.LastAchievableYCoordinate \in 1..EstateOf.Width

\* C11: when no budget is supplied, or the budget is never exceeded, the
\* traversal processes all cells and the last coordinates are the final
\* corner: (L, W) when W is odd, (1, W) when W is even.
C11_CompletedEndsAtFinalCorner ==
    /\ (input # <<>> /\ pc = "done"
           /\ (maxDistance = <<>>
                  \/ \A m \in 1..Cells : PathChecked(m) <= maxDistance[1])) =>
          outcome = "Completed"
    /\ outcome = "Completed" =>
          /\ Len(visited) = Cells
          /\ visited[Cells] = FinalCell
          /\ calculateDroneDistanceOutput.LastAchievableXCoordinate =
                (IF EstateOf.Width % 2 = 1 THEN EstateOf.Length ELSE 1)
          /\ calculateDroneDistanceOutput.LastAchievableYCoordinate =
                EstateOf.Width

C11_Witness ==
    /\ outcome = "Completed"
    /\ maxDistance # <<>>
    /\ EstateOf.Width % 2 = 0
    /\ EstateOf.Length >= 2
    /\ calculateDroneDistanceOutput.LastAchievableXCoordinate = 1
    /\ calculateDroneDistanceOutput.LastAchievableYCoordinate = EstateOf.Width

\* C13: with scale 10, the estate of length 5 and width 1 with tree (5,1,5)
\* ends at (4,1) for the budgets 46, 32 and 33; the estate of length 5 and
\* width 2 with trees (5,1,5) and (5,2,10) ends at (2,2) for budget 111 and
\* at (1,2) for budget 112.
C13_BudgetBoundaryScenarios ==
    returned = "output" =>
       /\ ThisCall \in {TestTravelled1Row(46), TestTravelled1Row(32),
                        TestTravelled1Row(33)} =>
             /\ calculateDroneDistanceOutput.LastAchievableXCoordinate = 4
             /\ calculateDroneDistanceOutput.LastAchievableYCoordinate = 1
       /\ ThisCall = TestTravelled2Rows(111) =>
             /\ calculateDroneDistanceOutput.LastAchievableXCoordinate = 2
             /\ calculateDroneDistanceOutput.LastAchievableYCoordinate = 2
       /\ ThisCall = TestTravelled2Rows(112) =>
             /\ calculateDroneDistanceOutput.LastAchievableXCoordinate = 1
             /\ calculateDroneDistanceOutput.LastAchievableYCoordinate = 2

C13_Witness ==
    /\ returned = "output"
    /\ ThisCall = TestTravelled2Rows(112)
    /\ calculateDroneDistanceOutput.LastAchievableXCoordinate = 1
    /\ calculateDroneDistanceOutput.LastAchievableYCoordinate = 2

\* C14: a nil input returns a nil result with the invalid-input error,
\* whatever the budget; no grid is built and no cell visited; no other call
\* returns nil or an error.
C14_NilInputIsInvalid ==
    /\ (input = <<>> /\ pc # "call") =>
          /\ pc = "done"
          /\ returned = "nil"
          /\ err = "err CalculateDroneDistance: invalid input -- nothing to calculate drone distance"
          /\ plantationGridArray = <<>>
          /\ visited = <<>>
    /\ (input # <<>>) => (returned # "nil" /\ err = "")

C14_Witness ==
    /\ input = <<>>
    /\ maxDistance # <<>>
    /\ returned = "nil"
    /\ err = InvalidInputError

\* the place of a returned last cell in the serpentine order: 0 when no
\* cell was reached, k for the k-th cell
ReachOf(out) ==
    IF out.LastAchievableXCoordinate = 0 /\ out.LastAchievableYCoordinate = 0
    THEN 0
    ELSE CHOOSE k \in 1..Cells :
            SerpentineCell(k) = <<out.LastAchievableYCoordinate - 1,
                                  out.LastAchievableXCoordinate - 1>>

\* C12: for the same estate, trees and scale, the call with the larger
\* budget returns a last cell at the same or a later place of the
\* serpentine order than the call with the smaller budget (checked for each
\* budget m against m + 1, which gives every pair m1 <= m2).
C12_ReachIsMonotonic ==
    (previous # <<>> /\ returned = "output") =>
       /\ previous[1].max[1] <= maxDistance[1]
       /\ ReachOf(previous[1].out) <= ReachOf(calculateDroneDistanceOutput)

C12_Witness ==
    /\ previous # <<>>
    /\ returned = "output"
    /\ input[1].Trees # <<>>
    /\ ReachOf(previous[1].out) >= 1
    /\ ReachOf(previous[1].out) < ReachOf(calculateDroneDistanceOutput)

\* the drone-plan requests that were answered with a plan
PlansAnswered ==
    {s \in Slots : /\ requests[s].handler = "GetEstateEstateIdDronePlan"
                   /\ requests[s].at = "responded"
                   /\ requests[s].status = StatusOK}

(* C15: the drone-plan response carries `rest` exactly when max-distance    *)
(* was supplied; with max-distance, `distance` is the supplied value (even  *)
(* when it exceeds the full patrol) and rest.x / rest.y are the planner's   *)
(* last achievable coordinates; without it, `distance` is the planner's     *)
(* TotalDistance.                                                           *)
C15_RestExactlyWithMaxDistance ==
    \A s \in PlansAnswered :
        LET body == requests[s].resp[1]
            out == requests[s].planned[1]
            max == requests[s].max
        IN /\ (body.rest # <<>>) <=> (max # <<>>)
           /\ max # <<>> =>
                 /\ body.distance = max[1]
                 /\ body.rest[1].x = out.LastAchievableXCoordinate
                 /\ body.rest[1].y = out.LastAchievableYCoordinate
           /\ max = <<>> => body.distance = out.TotalDistance

\* a plan answered for a budget larger than the full patrol distance
C15_Witness ==
    \E s \in PlansAnswered :
        /\ requests[s].max = <<40>>
        /\ requests[s].planned[1].TotalDistance \in 1..39
        /\ requests[s].resp[1].distance = 40
        /\ requests[s].resp[1].rest # <<>>

(* C16: after any interleaving of concurrent PostEstateEstateIdTree         *)
(* requests, each an IsTreeExist check followed by a CreateTree insert, the *)
(* trees table holds at most one tree per (estate_id, x, y).                *)
C16_AtMostOneTreePerCell ==
    \A a, b \in 1..Len(treesTable) :
        (/\ treesTable[a].estate_id = treesTable[b].estate_id
         /\ treesTable[a].x = treesTable[b].x
         /\ treesTable[a].y = treesTable[b].y) => a = b

\* the repository calls of one kind that the request of slot s has made
CallsOf(s, method) == {k \in 1..Len(calls[s]) : calls[s][k].method = method}

\* IsTreeExist answered the request of slot s that the tree is there
ToldTreeExists(s) ==
    \E k \in CallsOf(s, "IsTreeExist") :
        /\ ~calls[s][k].res.err
        /\ calls[s][k].res.out[1].IsExist

\* the request of slot s was answered with this status and error message
AnsweredError(s, status, message) ==
    /\ requests[s].at = "responded"
    /\ requests[s].status = status
    /\ requests[s].resp = <<[error |-> message]>>

(* C17: when IsTreeExist reports a tree at the requested (estate, x, y),    *)
(* PostEstateEstateIdTree answers 400 "Invalid request", CreateTree is      *)
(* never called for the request and the step leaves the stored trees as     *)
(* they were.                                                               *)
C17_ExistingTreeIsRejected ==
    [][\A s \in Slots :
          ToldTreeExists(s)' =>
              /\ AnsweredError(s, 400, "Invalid request")'
              /\ CallsOf(s, "CreateTree")' = {}
              /\ (~ToldTreeExists(s) => treesTable' = treesTable)]_vars

\* a request was told of a tree stored by an earlier request at its cell
C17_Witness ==
    \E s \in Slots :
        /\ ToldTreeExists(s)
        /\ ~mocked
        /\ \E k \in 1..Len(treesTable) :
              /\ treesTable[k].estate_id = requests[s].estateId
              /\ treesTable[k].x = requests[s].body[1].X
              /\ treesTable[k].y = requests[s].body[1].Y
        /\ AnsweredError(s, 400, "Invalid request")

\* the estates that GetEstateByEstateId handed to the tree request of slot s
EstatesGivenTo(s) ==
    {calls[s][k].res.out[1].Estate :
        k \in {c \in CallsOf(s, "GetEstateByEstateId") : calls[s][c].res.out # <<>>}}

\* the tree request of slot s asks for a cell beyond the estate it was given
BeyondEstate(s) ==
    /\ requests[s].handler = "PostEstateEstateIdTree"
    /\ requests[s].body # <<>>
    /\ \E e \in EstatesGivenTo(s) :
          requests[s].body[1].X > e.Length \/ requests[s].body[1].Y > e.Width

(* C18: after any sequence of PostEstateEstateIdTree requests every stored  *)
(* tree of an estate has 1 <= x <= length and 1 <= y <= width of that       *)
(* estate; a request with x > length or y > width is answered 400           *)
(* "Invalid request" and CreateTree is not called.                          *)
C18_StoredTreesInsideEstate ==
    /\ \A k \in 1..Len(treesTable) :
          \E e \in estatesTable :
              /\ e.id = treesTable[k].estate_id
              /\ treesTable[k].x \in 1..e.length
              /\ treesTable[k].y \in 1..e.width
    /\ \A s \in Slots :
          BeyondEstate(s) =>
              /\ AnsweredError(s, 400, "Invalid request")
              /\ CallsOf(s, "CreateTree") = {}

\* a tree stored at the far corner and a request one column beyond refused
C18_Witness ==
    /\ \E k \in 1..Len(treesTable) :
          \E e \in estatesTable :
              /\ e.id = treesTable[k].estate_id
              /\ treesTable[k].x = e.length
              /\ treesTable[k].y = e.width
    /\ \E s \in Slots :
          /\ BeyondEstate(s)
          /\ requests[s].body[1].Y = 1
          /\ requests[s].body[1].Height = 1
          /\ AnsweredError(s, 400, "Invalid request")

\* the repository gave the drone-plan request of slot s no estate, no error
ToldNoEstateForPlan(s) ==
    \E k \in CallsOf(s, "GetEstateTreesByEstateId") :
        ~calls[s][k].res.err /\ calls[s][k].res.out = <<>>

(* C19: when the repository returns no estate and no error for the id,      *)
(* GetEstateEstateIdDronePlan answers 404 "Estate not found" and never      *)
(* invokes CalculateDroneDistance.                                          *)
C19_PlanOfMissingEstateIs404 ==
    \A s \in Slots :
        ToldNoEstateForPlan(s) =>
            /\ AnsweredError(s, 404, "Estate not found")
            /\ CallsOf(s, "CalculateDroneDistance") = {}
            /\ caller # s

\* a drone-plan request answered 404 while the other one was being planned
C19_Witness ==
    \E s, t \in Slots :
        /\ ToldNoEstateForPlan(s)
        /\ requests[s].handler = "GetEstateEstateIdDronePlan"
        /\ AnsweredError(s, 404, "Estate not found")
        /\ CallsOf(t, "CalculateDroneDistance") # {}

\* GetEstateByEstateId gave the request of slot s no estate and no error
ToldNoEstate(s) ==
    \E k \in CallsOf(s, "GetEstateByEstateId") :
        ~calls[s][k].res.err /\ calls[s][k].res.out = <<>>

(* C20: in PostEstateEstateIdTree and GetEstateEstateIdStats, when          *)
(* GetEstateByEstateId returns no estate the response is 404                *)
(* "Estate not found" and no further repository operation (IsTreeExist,     *)
(* CreateTree, GetEstateStatsByEstateId) is performed.                      *)
C20_MissingEstateIs404 ==
    \A s \in Slots :
        ToldNoEstate(s) =>
            /\ requests[s].handler \in {"PostEstateEstateIdTree", "GetEstateEstateIdStats"}
            /\ AnsweredError(s, 404, "Estate not found")
            /\ CallsOf(s, "IsTreeExist") = {}
            /\ CallsOf(s, "CreateTree") = {}
            /\ CallsOf(s, "GetEstateStatsByEstateId") = {}
            /\ Len(calls[s]) = 1

\* both handlers answered 404 for an id that has no row in the estates table
C20_Witness ==
    \E s, t \in Slots :
        /\ ~mocked
        /\ requests[s].handler = "PostEstateEstateIdTree"
        /\ requests[t].handler = "GetEstateEstateIdStats"
        /\ ToldNoEstate(s) /\ ToldNoEstate(t)
        /\ AnsweredError(s, 404, "Estate not found")
        /\ AnsweredError(t, 404, "Estate not found")

\* the body of the request of slot s does not decode or breaks its tags
BodyRefused(s) ==
    \/ /\ requests[s].handler = "PostEstate"
       /\ \/ requests[s].body = <<>>
          \/ requests[s].body[1].Length \notin 1..50000
          \/ requests[s].body[1].Width \notin 1..50000
    \/ /\ requests[s].handler = "PostEstateEstateIdTree"
       /\ \/ requests[s].body = <<>>
          \/ requests[s].body[1].X \notin 1..50000
          \/ requests[s].body[1].Y \notin 1..50000
          \/ requests[s].body[1].Height \notin 1..30

(* C21: a request whose body fails decoding or validation (estate length   *)
(* or width missing or outside 1..50000; tree x or y missing or outside    *)
(* 1..50000; tree height missing or outside 1..30) is answered 400         *)
(* "Invalid request" by PostEstate / PostEstateEstateIdTree, no repository *)
(* operation is invoked, and no estate or tree is created.                 *)
C21_BadBodyIs400WithoutRepository ==
    [][\A s \in Slots :
          BodyRefused(s)' =>
              /\ AnsweredError(s, 400, "Invalid request")'
              /\ calls'[s] = <<>>
              /\ (~BodyRefused(s) =>
                     estatesTable' = estatesTable /\ treesTable' = treesTable)]_vars

\* an estate of width 50001 and a tree of height 31 were both refused
C21_Witness ==
    \E s, t \in Slots :
        /\ requests[s].handler = "PostEstate"
        /\ requests[s].body # <<>>
        /\ requests[s].body[1].Width = 50001
        /\ requests[s].body[1].Length = 2
        /\ requests[t].handler = "PostEstateEstateIdTree"
        /\ requests[t].body # <<>>
        /\ requests[t].body[1].Height = 31
        /\ requests[t].body[1].X = 1
        /\ AnsweredError(s, 400, "Invalid request")
        /\ AnsweredError(t, 400, "Invalid request")

\* the methods of RepositoryInterface
RepositoryMethods ==
    {"CreateEstate", "GetEstateByEstateId", "IsTreeExist", "CreateTree",
     "GetEstateStatsByEstateId", "GetEstateTreesByEstateId"}

\* the repository calls of the request of slot s that returned an error
FailedCalls(s) ==
    {k \in 1..Len(calls[s]) :
        calls[s][k].method \in RepositoryMethods /\ calls[s][k].res.err}

(* C22: in every handler, when a repository operation returns an error the *)
(* response status is 500 and no later repository operation of that        *)
(* request is invoked.                                                      *)
C22_RepositoryErrorIs500 ==
    \A s \in Slots :
        \A k \in FailedCalls(s) :
            /\ requests[s].at = "responded"
            /\ requests[s].status = 500
            /\ k = Len(calls[s])

\* IsTreeExist failed for one request and the trees query for the other
C22_Witness ==
    \E s, t \in Slots :
        /\ requests[s].handler = "PostEstateEstateIdTree"
        /\ Len(calls[s]) = 2
        /\ FailedCalls(s) = {2}
        /\ requests[s].status = 500
        /\ requests[t].handler = "GetEstateEstateIdDronePlan"
        /\ FailedCalls(t) = {1}
        /\ requests[t].status = 500

\* the request of slot s has just had CreateEstate succeed on the database
CreateEstateDone(s) ==
    /\ ~mocked
    /\ requests[s].handler = "PostEstate"
    /\ calls[s] # <<>>
    /\ ~calls[s][1].res.err

(* C23: CreateEstate is idempotent on dimensions: after any sequence of     *)
(* CreateEstate calls there is at most one estate row per (length, width),  *)
(* and a call whose (length, width) already exists returns the id of the    *)
(* existing estate, not the fresh id passed in, and only refreshes          *)
(* created_at.                                                              *)
C23_CreateEstateIdempotent ==
    [][/\ \A a, b \in estatesTable' :
             (a.length = b.length /\ a.width = b.width) => a = b
       /\ \A s \in Slots :
             (CreateEstateDone(s)' /\ calls[s] = <<>>) =>
                 LET in == calls'[s][1].args
                     id == calls'[s][1].res.out[1].Id
                 IN \A e \in estatesTable :
                       (e.length = in.Length /\ e.width = in.Width) =>
                           /\ id = e.id
                           /\ id # in.Id
                           /\ estatesTable' =
                                 (estatesTable \ {e}) \cup
                                    {[e EXCEPT !.created_at = now]}
                           /\ now > e.created_at]_vars

\* POST /estate for the dimensions of estate 1 answered with the id 1
C23_Witness ==
    \E s \in Slots :
        /\ CreateEstateDone(s)
        /\ calls[s][1].args.Length = 2 /\ calls[s][1].args.Width = 2
        /\ calls[s][1].args.Id > 1
        /\ calls[s][1].res.out[1].Id = 1
        /\ requests[s].status = 200
        /\ requests[s].resp = <<[id |-> 1]>>
        /\ \E e \in estatesTable : e.id = 1 /\ e.created_at > 0

\* the drone-plan requests served by the database for an id without estate
PlansForUnknownEstate ==
    {s \in Slots : /\ ~mocked
                   /\ requests[s].handler = "GetEstateEstateIdDronePlan"
                   /\ \A e \in estatesTable : e.id # requests[s].estateId
                   /\ calls[s][1].res # DbError}

(* C27: for an estate id that has no row in the estates table,              *)
(* Repository.GetEstateTreesByEstateId signals not-found as (nil output,    *)
(* nil error), as GetEstateByEstateId does, so that the drone-plan endpoint *)
(* on the real repository answers 404 "Estate not found" rather than 500.   *)
C27_UnknownEstatePlanIs404 ==
    \A s \in PlansForUnknownEstate :
        /\ ~calls[s][1].res.err
        /\ calls[s][1].res.out = <<>>
        /\ AnsweredError(s, 404, "Estate not found")

\* the statistics requests
StatsRequests == {s \in Slots : requests[s].handler = "GetEstateEstateIdStats"}

\* the statistics requests that were answered 200
StatsAnswered ==
    {s \in StatsRequests : requests[s].at = "responded" /\ requests[s].status = 200}

(* C30: GetEstateEstateIdStats returns the repository's count, max, min and *)
(* median unchanged, and calls GetEstateStatsByEstateId only after          *)
(* GetEstateByEstateId has returned an existing estate; for an existing     *)
(* estate with no trees the reported count, max, min and median are all 0   *)
(* (the median is held as the fraction <<0, 1>>).                           *)
C30_StatsPassedThrough ==
    /\ \A s \in StatsRequests :
          \A k \in CallsOf(s, "GetEstateStatsByEstateId") :
              /\ k = 2
              /\ calls[s][1].method = "GetEstateByEstateId"
              /\ ~calls[s][1].res.err
              /\ calls[s][1].res.out # <<>>
    /\ \A s \in StatsAnswered :
          /\ Len(calls[s]) = 2
          /\ calls[s][2].method = "GetEstateStatsByEstateId"
          /\ LET got == calls[s][2].res.out[1]
                 body == requests[s].resp[1]
             IN /\ body.count = got.Count
                /\ body.max = got.Max
                /\ body.min = got.Min
                /\ body.median = got.Median
          /\ (~mocked /\ \A k \in 1..Len(treesTable) :
                            treesTable[k].estate_id # requests[s].estateId) =>
                requests[s].resp = <<[count |-> 0, max |-> 0, min |-> 0,
                                      median |-> <<0, 1>>]>>

\* the statistics of estate 1 were asked while it had no tree
C30_Witness ==
    \E s \in StatsAnswered :
        /\ ~mocked
        /\ requests[s].estateId = 1
        /\ treesTable = <<>>
        /\ requests[s].resp[1].count = 0
        /\ requests[s].resp[1].median = <<0, 1>>

\* the call was given a budget below twice the height of the first cell
BudgetBelowFirstCell ==
    /\ input # <<>>
    /\ maxDistance # <<>>
    /\ maxDistance[1] < 2 * CellHeight(0, 0)

(* C29: when maxDistance < 2 * h(1,1) the budget check trips on the very    *)
(* first cell and CalculateDroneDistance returns, without error, a result   *)
(* with LastAchievableXCoordinate = 0, LastAchievableYCoordinate = 0 and    *)
(* all three distances 0 (no cell reached).                                 *)
C29_NoCellReached ==
    (BudgetBelowFirstCell /\ pc = "done") =>
        /\ visited = <<<<0, 0>>>>
        /\ returned = "output"
        /\ err = ""
        /\ calculateDroneDistanceOutput.LastAchievableXCoordinate = 0
        /\ calculateDroneDistanceOutput.LastAchievableYCoordinate = 0
        /\ calculateDroneDistanceOutput.TotalDistance = 0
        /\ calculateDroneDistanceOutput.TotalHorizontalDistance = 0
        /\ calculateDroneDistanceOutput.TotalVerticalDistance = 0

\* a budget of 5 for a first cell of height 3 (a tree of height 2)
C29_Witness ==
    /\ BudgetBelowFirstCell
    /\ pc = "done"
    /\ CellHeight(0, 0) = 3
    /\ maxDistance = <<5>>
    /\ Cells > 1
    /\ returned = "output"

\* T: the total of the whole patrol, the checked quantity at the final cell
FullPatrolDistance == PathChecked(Cells)

(* C28: for a fixed estate, tree list and positive ScaleFactor let T be the *)
(* TotalDistance of the call without budget. A call with budget B completes *)
(* the traversal if and only if B >= T, and then its three distances are    *)
(* those of the call without budget; the checked quantity grows by at least *)
(* ScaleFactor from each cell to the next and is T at the final cell.       *)
C28_CompletesIffBudgetCoversTotal ==
    (pc = "done" /\ input # <<>>) =>
        LET T == FullPatrolDistance
        IN /\ maxDistance = <<>> =>
                 /\ calculateDroneDistanceOutput.TotalDistance = T
                 /\ \A k \in 1..(Cells - 1) :
                       PathChecked(k + 1) >= PathChecked(k) + ScaleFactor
           /\ maxDistance # <<>> =>
                 /\ (outcome = "Completed") <=> (maxDistance[1] >= T)
                 /\ outcome # "Completed" => outcome = "BudgetExceeded"
                 /\ outcome = "Completed" =>
                       /\ calculateDroneDistanceOutput.TotalDistance = T
                       /\ calculateDroneDistanceOutput.TotalHorizontalDistance
                             = ScaleFactor * (Cells - 1)
                       /\ calculateDroneDistanceOutput.TotalVerticalDistance
                             = T - ScaleFactor * (Cells - 1)

\* a budget that is exactly the total of a patrol over a tree
C28_Witness ==
    /\ pc = "done"
    /\ input # <<>>
    /\ maxDistance = <<FullPatrolDistance>>
    /\ outcome = "Completed"
    /\ input[1].Trees # <<>>
    /\ Cells >= 2
    /\ calculateDroneDistanceOutput.TotalDistance = maxDistance[1]

\* the places in the tree list that name the cell of row r, column c
TreesAt(r, c) ==
    {k \in 1..Len(input[1].Trees) :
        input[1].Trees[k].X = c + 1 /\ input[1].Trees[k].Y = r + 1}

\* the height map has been built
GridBuilt == input # <<>> /\ pc \in {"scan", "finish", "done"}

(* C26: the height map built by CalculateDroneDistance has W rows of L      *)
(* cells; a cell is 1 when no tree is at its coordinate and tree.height + 1 *)
(* when one is (row y-1, column x-1), so every cell is >= 1; when several   *)
(* trees share a coordinate the cell takes height + 1 of the one that is    *)
(* last in the tree list.                                                   *)
C26_HeightMapOfTrees ==
    GridBuilt =>
        /\ DOMAIN plantationGridArray = 0..(EstateOf.Width - 1)
        /\ \A r \in DOMAIN plantationGridArray :
              /\ DOMAIN plantationGridArray[r] = 0..(EstateOf.Length - 1)
              /\ \A c \in DOMAIN plantationGridArray[r] :
                    LET at == TreesAt(r, c)
                    IN /\ plantationGridArray[r][c] >= 1
                       /\ at = {} => plantationGridArray[r][c] = 1
                       /\ \A k \in at :
                             (\A m \in at : m <= k) =>
                                 plantationGridArray[r][c] = input[1].Trees[k].Height + 1

\* a cell named by a tree of height 2 and then by one of height 1 holds 2
C26_Witness ==
    /\ GridBuilt
    /\ TreesAt(0, 1) = {1, 2}
    /\ input[1].Trees[1].Height = 2
    /\ input[1].Trees[2].Height = 1
    /\ plantationGridArray[0][1] = 2
    /\ plantationGridArray[0][0] = 1

\* what holds of a call on a non-nil input while it runs and when it is over
BoundedPatrol ==
    input # <<>> =>
        /\ Len(visited) <= Cells
        /\ pc # "done" => outcome = "Scanning"
        /\ pc = "done" => outcome \in {"BudgetExceeded", "Completed"}
        /\ outcome = "Completed" =>
              /\ Len(visited) = Cells
              /\ landings = <<FinalCell>>
        /\ outcome = "BudgetExceeded" =>
              /\ pc = "done"
              /\ maxDistance # <<>>
              /\ landings = <<>>
              /\ PathChecked(Len(visited)) > maxDistance[1]

(* C25: every CalculateDroneDistance call on a non-nil input terminates     *)
(* after processing at most W*L cells, in exactly one of two terminal       *)
(* outcomes: BudgetExceeded (as soon as the budget check trips; no further  *)
(* cell is processed and the last coordinates are not updated afterwards)   *)
(* or Completed (after the last cell of the last row, with the landing cost *)
(* included).                                                               *)
C25_TerminatesInOneOfTwoOutcomes ==
    /\ []BoundedPatrol
    /\ [][(outcome = "BudgetExceeded" /\ pc' # "call") =>
             /\ visited' = visited
             /\ calculateDroneDistanceOutput' = calculateDroneDistanceOutput]_vars
    /\ (pc = "call") ~> (pc = "done")

\* a call stopped by its budget in the second row of a patrol
C25_Witness ==
    /\ input # <<>>
    /\ pc = "done"
    /\ outcome = "BudgetExceeded"
    /\ Len(visited) > EstateOf.Length
    /\ Len(visited) < Cells
    /\ previous # <<>>

\* the cells of the serpentine order the budget of this call does not cover
Unaffordable ==
    IF maxDistance = <<>> THEN {}
    ELSE {k \in 1..Cells : PathChecked(k) > maxDistance[1]}

\* the result as a function of estate, trees, ScaleFactor and maxDistance
ResultOfInputs ==
    IF Unaffordable = {}
    THEN [TotalDistance |-> PathChecked(Cells),
          TotalVerticalDistance |-> PathVertical(Cells) + PathHeight(Cells),
          TotalHorizontalDistance |-> ScaleFactor * (Cells - 1),
          LastAchievableXCoordinate |-> FinalCell[2] + 1,
          LastAchievableYCoordinate |-> FinalCell[1] + 1]
    ELSE LET k == CHOOSE k \in Unaffordable : \A m \in Unaffordable : k <= m
         IN [TotalDistance |-> 0, TotalVerticalDistance |-> 0,
             TotalHorizontalDistance |-> 0,
             LastAchievableXCoordinate |->
                 IF k = 1 THEN 0 ELSE SerpentineCell(k - 1)[2] + 1,
             LastAchievableYCoordinate |->
                 IF k = 1 THEN 0 ELSE SerpentineCell(k - 1)[1] + 1]

\* both calls have returned
BothReturned == pc = "done" /\ parked # <<>> /\ parked[1].pc = "done"

(* C24: the planner's result is a function of its own inputs only: two      *)
(* CalculateDroneDistance calls with identical (estate, trees, scaleFactor, *)
(* maxDistance) return identical results, also when their steps are         *)
(* interleaved with each other or with calls for other estates.             *)
C24_ResultDependsOnInputsOnly ==
    /\ (pc = "done" /\ input # <<>>) =>
          /\ returned = "output"
          /\ err = ""
          /\ calculateDroneDistanceOutput = ResultOfInputs
    /\ (BothReturned /\ parked[1].input = input
                     /\ parked[1].maxDistance = maxDistance) =>
          /\ parked[1].returned = returned
          /\ parked[1].err = err
          /\ parked[1].calculateDroneDistanceOutput = calculateDroneDistanceOutput

\* two calls on the same estate with a tree and the same budget ran their
\* loops in turns and have returned
C24_Witness ==
    /\ BothReturned
    /\ parked[1].overlapped
    /\ input # <<>>
    /\ parked[1].input = input
    /\ parked[1].maxDistance = maxDistance
    /\ input[1].Trees # <<>>
    /\ Cells = 4
    /\ maxDistance # <<>>
    /\ parked[1].calculateDroneDistanceOutput = calculateDroneDistanceOutput

====
